---- MODULE Spec2Model ----
(***************************************************************************)
(* Model selection and the model cache of languagemodels/models.py.        *)
(*                                                                         *)
(* Sizes are integers counted in units of 1/(1000*1024) gigabyte, the      *)
(* smallest unit in which every size the module computes is whole: a       *)
(* decimal number of gigabytes with up to three decimals is a whole number *)
(* of thousandths ("milli"), one thousandth of a gigabyte is 1024 units    *)
(* and one thousandth of a megabyte (2^-10 gigabyte) is 1 unit.            *)
(* The catalog's params are kept in millions (params / 1e6), so that       *)
(* params / 1e9 gigabytes is params-in-millions * 1024 units.              *)
(*                                                                         *)
(* Python strings that the code looks into (lower, rstrip, indexing,       *)
(* substring tests, re.match) are spelled out by Chars as sequences of     *)
(* one-character strings; strings that are only compared whole stay atoms. *)
(***************************************************************************)
EXTENDS Integers, Sequences, FiniteSets, TLC

VARIABLES
    max_ram,             \* models.py global max_ram, in units
    license_match,       \* models.py global license_match (optional string)
    env_SIZE,            \* os.environ LANGUAGEMODELS_SIZE (optional string)
    env_INSTRUCT_MODEL,  \* os.environ LANGUAGEMODELS_INSTRUCT_MODEL (optional string)
    modelcache,          \* models.py global modelcache: name -> (tokenizer, model)
    budget_set,          \* history: the value of the last accepted set_max_ram call
    track,               \* history: the last successful get_model(purpose, False)
    last                 \* the last call made and what it returned or raised

vars ==
    << max_ram, license_match, env_SIZE, env_INSTRUCT_MODEL, modelcache,
       budget_set, track, last >>

----------------------------------------------------------------------------
(* Optional values (Python None or a str) and call outcomes.               *)

None == [set |-> FALSE, s |-> ""]

Some(str) == [set |-> TRUE, s |-> str]

\* Python truthiness of an optional string: None and "" are both falsy.
Truthy(opt) == opt.set /\ opt.s # ""

Ok(v) == [err |-> "none", val |-> v]

RaiseNum(e) == [err |-> e, val |-> 0]

RaiseStr(e) == [err |-> e, val |-> ""]

\* A number (int or float) handed to set_max_ram, in thousandths of a gigabyte.
Number(milli) == [kind |-> "num", milli |-> milli, s |-> ""]

\* A string handed to set_max_ram.
String(str) == [kind |-> "str", milli |-> 0, s |-> str]

----------------------------------------------------------------------------
(* The spelling of every string the model looks into.                      *)

Spelling(s) ==
    CASE s = "" -> << >>
      [] s = "flan-alpaca-xl-ct2-int8" -> <<"f", "l", "a", "n", "-", "a", "l", "p", "a", "c", "a", "-", "x", "l", "-", "c", "t", "2", "-", "i", "n", "t", "8">>
      [] s = "flan-alpaca-gpt4-xl-ct2-int8" -> <<"f", "l", "a", "n", "-", "a", "l", "p", "a", "c", "a", "-", "g", "p", "t", "4", "-", "x", "l", "-", "c", "t", "2", "-", "i", "n", "t", "8">>
      [] s = "flan-t5-xl-ct2-int8" -> <<"f", "l", "a", "n", "-", "t", "5", "-", "x", "l", "-", "c", "t", "2", "-", "i", "n", "t", "8">>
      [] s = "fastchat-t5-3b-v1.0-ct2-int8" -> <<"f", "a", "s", "t", "c", "h", "a", "t", "-", "t", "5", "-", "3", "b", "-", "v", "1", ".", "0", "-", "c", "t", "2", "-", "i", "n", "t", "8">>
      [] s = "LaMini-Flan-T5-783M-ct2-int8" -> <<"L", "a", "M", "i", "n", "i", "-", "F", "l", "a", "n", "-", "T", "5", "-", "7", "8", "3", "M", "-", "c", "t", "2", "-", "i", "n", "t", "8">>
      [] s = "flan-t5-large-ct2-int8" -> <<"f", "l", "a", "n", "-", "t", "5", "-", "l", "a", "r", "g", "e", "-", "c", "t", "2", "-", "i", "n", "t", "8">>
      [] s = "LaMini-Flan-T5-248M-ct2-int8" -> <<"L", "a", "M", "i", "n", "i", "-", "F", "l", "a", "n", "-", "T", "5", "-", "2", "4", "8", "M", "-", "c", "t", "2", "-", "i", "n", "t", "8">>
      [] s = "flan-alpaca-base-ct2-int8" -> <<"f", "l", "a", "n", "-", "a", "l", "p", "a", "c", "a", "-", "b", "a", "s", "e", "-", "c", "t", "2", "-", "i", "n", "t", "8">>
      [] s = "flan-t5-base-ct2-int8" -> <<"f", "l", "a", "n", "-", "t", "5", "-", "b", "a", "s", "e", "-", "c", "t", "2", "-", "i", "n", "t", "8">>
      [] s = "LaMini-Flan-T5-77M-ct2-int8" -> <<"L", "a", "M", "i", "n", "i", "-", "F", "l", "a", "n", "-", "T", "5", "-", "7", "7", "M", "-", "c", "t", "2", "-", "i", "n", "t", "8">>
      [] s = "flan-t5-small-ct2-int8" -> <<"f", "l", "a", "n", "-", "t", "5", "-", "s", "m", "a", "l", "l", "-", "c", "t", "2", "-", "i", "n", "t", "8">>
      [] s = "LaMini-GPT-774M-ct2-int8" -> <<"L", "a", "M", "i", "n", "i", "-", "G", "P", "T", "-", "7", "7", "4", "M", "-", "c", "t", "2", "-", "i", "n", "t", "8">>
      [] s = "LaMini-GPT-124M-ct2-int8" -> <<"L", "a", "M", "i", "n", "i", "-", "G", "P", "T", "-", "1", "2", "4", "M", "-", "c", "t", "2", "-", "i", "n", "t", "8">>
      [] s = "all-MiniLM-L6-v2-ct2-int8" -> <<"a", "l", "l", "-", "M", "i", "n", "i", "L", "M", "-", "L", "6", "-", "v", "2", "-", "c", "t", "2", "-", "i", "n", "t", "8">>
      [] s = "cc-by-nc-4.0" -> <<"c", "c", "-", "b", "y", "-", "n", "c", "-", "4", ".", "0">>
      [] s = "apache-2.0" -> <<"a", "p", "a", "c", "h", "e", "-", "2", ".", "0">>
      [] s = "mit" -> <<"m", "i", "t">>
      [] s = "minilm" -> <<"m", "i", "n", "i", "l", "m">>
      [] s = "gpt" -> <<"g", "p", "t">>
      [] s = "b" -> <<"b">>
      [] s = "apache*" -> <<"a", "p", "a", "c", "h", "e", "*">>
      [] s = "cc-by" -> <<"c", "c", "-", "b", "y">>
      [] s = "gpl" -> <<"g", "p", "l">>
      [] s = "small" -> <<"s", "m", "a", "l", "l">>
      [] s = "base" -> <<"b", "a", "s", "e">>
      [] s = "large" -> <<"l", "a", "r", "g", "e">>
      [] s = "xl" -> <<"x", "l">>
      [] s = "xxl" -> <<"x", "x", "l">>
      [] s = "BASE" -> <<"B", "A", "S", "E">>
      [] s = "Large" -> <<"L", "a", "r", "g", "e">>
      [] s = "XXL" -> <<"X", "X", "L">>
      [] s = "4G" -> <<"4", "G">>
      [] s = "256mb" -> <<"2", "5", "6", "m", "b">>
      [] s = "256M" -> <<"2", "5", "6", "M">>
      [] s = ".5" -> <<".", "5">>
      [] s = "512" -> <<"5", "1", "2">>
      [] s = "512mb" -> <<"5", "1", "2", "m", "b">>
      [] s = "16" -> <<"1", "6">>
      [] s = "0.79" -> <<"0", ".", "7", "9">>
      [] s = "0" -> <<"0">>
      [] s = "1.5g" -> <<"1", ".", "5", "g">>
      [] s = "4gbb" -> <<"4", "g", "b", "b">>
      [] s = "4b" -> <<"4", "b">>
      [] s = "big" -> <<"b", "i", "g">>
      [] s = "4k" -> <<"4", "k">>
      [] s = "m" -> <<"m">>
      [] s = "1.2.3" -> <<"1", ".", "2", ".", "3">>
      [] s = "my-GPT-ct2-int8" -> <<"m", "y", "-", "G", "P", "T", "-", "c", "t", "2", "-", "i", "n", "t", "8">>

Spelled ==
    { "",
      "flan-alpaca-xl-ct2-int8", "flan-alpaca-gpt4-xl-ct2-int8",
      "flan-t5-xl-ct2-int8", "fastchat-t5-3b-v1.0-ct2-int8",
      "LaMini-Flan-T5-783M-ct2-int8", "flan-t5-large-ct2-int8",
      "LaMini-Flan-T5-248M-ct2-int8", "flan-alpaca-base-ct2-int8",
      "flan-t5-base-ct2-int8", "LaMini-Flan-T5-77M-ct2-int8",
      "flan-t5-small-ct2-int8", "LaMini-GPT-774M-ct2-int8",
      "LaMini-GPT-124M-ct2-int8", "all-MiniLM-L6-v2-ct2-int8",
      "cc-by-nc-4.0", "apache-2.0", "mit", "minilm", "gpt", "b", "apache*",
      "cc-by", "gpl", "small", "base", "large", "xl", "xxl", "BASE", "Large",
      "XXL", "4G", "256mb", "256M", ".5", "512", "512mb", "16", "0.79", "0",
      "1.5g", "4gbb", "4b", "big", "4k", "m", "1.2.3", "my-GPT-ct2-int8" }

CharTable == [s \in Spelled |-> Spelling(s)]

Chars(s) == CharTable[s]

UpperLetters ==
    << "A", "B", "C", "D", "E", "F", "G", "H", "I", "J", "K", "L", "M",
       "N", "O", "P", "Q", "R", "S", "T", "U", "V", "W", "X", "Y", "Z" >>

LowerLetters ==
    << "a", "b", "c", "d", "e", "f", "g", "h", "i", "j", "k", "l", "m",
       "n", "o", "p", "q", "r", "s", "t", "u", "v", "w", "x", "y", "z" >>

LowerChar(c) ==
    IF \E i \in 1..Len(UpperLetters) : UpperLetters[i] = c
    THEN LowerLetters[CHOOSE i \in 1..Len(UpperLetters) : UpperLetters[i] = c]
    ELSE c

\* str.lower()
Lower(cs) == [i \in 1..Len(cs) |-> LowerChar(cs[i])]

\* str.rstrip("b"): every trailing "b" is removed, not only one.
RECURSIVE RStripB(_)
RStripB(cs) ==
    IF cs # << >> /\ cs[Len(cs)] = "b"
    THEN RStripB(SubSeq(cs, 1, Len(cs) - 1))
    ELSE cs

\* sub in cs (Python substring test)
Contains(sub, cs) ==
    \E i \in 1..(Len(cs) - Len(sub) + 1) : SubSeq(cs, i, i + Len(sub) - 1) = sub

Digits == << "0", "1", "2", "3", "4", "5", "6", "7", "8", "9" >>

IsDigit(c) == \E i \in 1..Len(Digits) : Digits[i] = c

DigitVal(c) == (CHOOSE i \in 1..Len(Digits) : Digits[i] = c) - 1

RECURSIVE DigitsVal(_)
DigitsVal(cs) ==
    IF cs = << >> THEN 0
    ELSE DigitsVal(SubSeq(cs, 1, Len(cs) - 1)) * 10 + DigitVal(cs[Len(cs)])

\* The fraction digits ds (at most three) as thousandths: "5" is 500, "79" is 790.
FracMilli(ds) ==
    CASE Len(ds) = 0 -> 0
      [] Len(ds) = 1 -> DigitsVal(ds) * 100
      [] Len(ds) = 2 -> DigitsVal(ds) * 10
      [] OTHER -> DigitsVal(SubSeq(ds, 1, 3))

(***************************************************************************)
(* float(str) on the strings the model draws: plain decimals made of       *)
(* digits and at most one point, with at least one digit. Anything else    *)
(* among them (letters, a second point, the empty string) is a ValueError.  *)
(* The value is returned in thousandths.                                   *)
(***************************************************************************)
ParseFloat(cs) ==
    LET points == {i \in 1..Len(cs) : cs[i] = "."}
        wellformed ==
            /\ \A i \in 1..Len(cs) : IsDigit(cs[i]) \/ cs[i] = "."
            /\ Cardinality(points) <= 1
            /\ \E i \in 1..Len(cs) : IsDigit(cs[i])
        dot == IF points = {} THEN Len(cs) + 1 ELSE CHOOSE i \in points : TRUE
        whole == SubSeq(cs, 1, dot - 1)
        frac == SubSeq(cs, dot + 1, Len(cs))
    IN  IF wellformed
        THEN Ok(DigitsVal(whole) * 1000 + FracMilli(frac))
        ELSE RaiseNum("ValueError")

----------------------------------------------------------------------------
(* Budget configuration.                                                   *)

\* Units in one thousandth of a gigabyte.
UnitsPerMilliGB == 1024

\* multipliers = {"g": 1.0, "m": 2 ** -10}, applied to a value in thousandths.
HasMultiplier(c) == c \in {"g", "m"}

Multiplier(c) == IF c = "g" THEN UnitsPerMilliGB ELSE 1

convert_to_gb(space) ==
    IF space.kind = "num"
    THEN Ok(space.milli * UnitsPerMilliGB)
    ELSE LET stripped == RStripB(Lower(Chars(space.s)))
         IN  IF stripped = << >>
             THEN RaiseNum("IndexError")
             ELSE LET suffix == stripped[Len(stripped)]
                  IN  IF HasMultiplier(suffix)
                      THEN LET f == ParseFloat(SubSeq(stripped, 1, Len(stripped) - 1))
                           IN  IF f.err = "none"
                               THEN Ok(f.val * Multiplier(suffix))
                               ELSE f
                      ELSE LET f == ParseFloat(stripped)
                           IN  IF f.err = "none"
                               THEN Ok(f.val * UnitsPerMilliGB)
                               ELSE f

\* max_ram = 512 at import
InitialMaxRam == 512 * 1000 * UnitsPerMilliGB

\* The named tiers of LANGUAGEMODELS_SIZE, in units.
TierValue(cs) ==
    CASE cs = Chars("small") -> Ok(200 * UnitsPerMilliGB)
      [] cs = Chars("base") -> Ok(400 * UnitsPerMilliGB)
      [] cs = Chars("large") -> Ok(1000 * UnitsPerMilliGB)
      [] cs = Chars("xl") -> Ok(4000 * UnitsPerMilliGB)
      [] cs = Chars("xxl") -> Ok(16000 * UnitsPerMilliGB)
      [] OTHER -> RaiseNum("NotATier")

\* get_max_ram() with the override and the environment value given.
GetMaxRam(override, env) ==
    IF override # 0
    THEN Ok(override)
    ELSE IF Truthy(env)
         THEN LET tier == TierValue(Lower(Chars(env.s)))
              IN  IF tier.err = "none"
                  THEN tier
                  ELSE convert_to_gb(String(env.s))
         ELSE Ok(400 * UnitsPerMilliGB)

get_max_ram == GetMaxRam(max_ram, env_SIZE)

----------------------------------------------------------------------------
(* The catalog and the selection.                                          *)

models ==
    <<
      [name |-> "flan-alpaca-xl-ct2-int8", tuning |-> "instruct", params |-> 3000,
       quantization |-> "int8", architecture |-> "encoder-decoder-transformer",
       license |-> "cc-by-nc-4.0"],
      [name |-> "flan-alpaca-gpt4-xl-ct2-int8", tuning |-> "instruct", params |-> 3000,
       quantization |-> "int8", architecture |-> "encoder-decoder-transformer",
       license |-> "cc-by-nc-4.0"],
      [name |-> "flan-t5-xl-ct2-int8", tuning |-> "instruct", params |-> 3000,
       quantization |-> "int8", architecture |-> "encoder-decoder-transformer",
       license |-> "apache-2.0"],
      [name |-> "fastchat-t5-3b-v1.0-ct2-int8", tuning |-> "instruct", params |-> 3000,
       quantization |-> "int8", architecture |-> "encoder-decoder-transformer",
       license |-> "apache-2.0"],
      [name |-> "LaMini-Flan-T5-783M-ct2-int8", tuning |-> "instruct", params |-> 783,
       quantization |-> "int8", architecture |-> "encoder-decoder-transformer",
       license |-> "cc-by-nc-4.0"],
      [name |-> "flan-t5-large-ct2-int8", tuning |-> "instruct", params |-> 783,
       quantization |-> "int8", architecture |-> "encoder-decoder-transformer",
       license |-> "apache-2.0"],
      [name |-> "LaMini-Flan-T5-248M-ct2-int8", tuning |-> "instruct", params |-> 248,
       quantization |-> "int8", architecture |-> "encoder-decoder-transformer",
       license |-> "cc-by-nc-4.0"],
      [name |-> "flan-alpaca-base-ct2-int8", tuning |-> "instruct", params |-> 248,
       quantization |-> "int8", architecture |-> "encoder-decoder-transformer",
       license |-> "cc-by-nc-4.0"],
      [name |-> "flan-t5-base-ct2-int8", tuning |-> "instruct", params |-> 248,
       quantization |-> "int8", architecture |-> "encoder-decoder-transformer",
       license |-> "apache-2.0"],
      [name |-> "LaMini-Flan-T5-77M-ct2-int8", tuning |-> "instruct", params |-> 77,
       quantization |-> "int8", architecture |-> "encoder-decoder-transformer",
       license |-> "cc-by-nc-4.0"],
      [name |-> "flan-t5-small-ct2-int8", tuning |-> "instruct", params |-> 77,
       quantization |-> "int8", architecture |-> "encoder-decoder-transformer",
       license |-> "apache-2.0"],
      [name |-> "LaMini-GPT-774M-ct2-int8", tuning |-> "instruct", params |-> 774,
       quantization |-> "int8", architecture |-> "decoder-only-transformer",
       license |-> "mit"],
      [name |-> "LaMini-GPT-124M-ct2-int8", tuning |-> "instruct", params |-> 124,
       quantization |-> "int8", architecture |-> "decoder-only-transformer",
       license |-> "mit"],
      [name |-> "all-MiniLM-L6-v2-ct2-int8", tuning |-> "embedding", params |-> 22,
       quantization |-> "int8", architecture |-> "encoder-only-transformer",
       license |-> "apache-2.0"]
    >>

\* The comparison of sizefit as the slips "<=" and "swapped operands" would make it.
sizefit_le(model, budget) == model.params * UnitsPerMilliGB <= budget

sizefit_swapped(model, budget) == budget < model.params * UnitsPerMilliGB

\* memsize = model["params"] / 1e9; sizefit = memsize < max_ram
sizefit(model, budget) == model.params * UnitsPerMilliGB < budget

\* One pattern item against one character: "." matches any character.
CharMatch(p, c) == p = "." \/ p = c

(***************************************************************************)
(* re.match(pattern, string) for patterns made of literal characters, "."  *)
(* and "x*" (zero or more of the preceding item): the pattern has to match *)
(* a prefix of the string, not the whole of it.                            *)
(***************************************************************************)
RECURSIVE ReMatch(_, _)
ReMatch(p, s) ==
    IF p = << >> THEN TRUE
    ELSE IF Len(p) >= 2 /\ p[2] = "*"
         THEN \/ ReMatch(SubSeq(p, 3, Len(p)), s)
              \/ s # << >> /\ CharMatch(p[1], s[1]) /\ ReMatch(p, Tail(s))
         ELSE s # << >> /\ CharMatch(p[1], s[1]) /\ ReMatch(Tail(p), Tail(s))

\* licensematch without its "not license_match or".
licensematch_required(filter, model) ==
    Truthy(filter) /\ ReMatch(Chars(filter.s), Chars(model.license))

\* licensematch = not license_match or re.match(license_match, model["license"])
licensematch(filter, model) ==
    ~Truthy(filter) \/ ReMatch(Chars(filter.s), Chars(model.license))

\* The for loop of get_model_name from catalog position i on.
RECURSIVE ScanModels(_, _, _, _)
ScanModels(i, model_type, budget, filter) ==
    IF i > Len(models)
    THEN RaiseStr("ModelException")
    ELSE IF models[i].quantization # "int8"
         THEN RaiseStr("AssertionError")
         ELSE IF /\ models[i].tuning = model_type
                 /\ sizefit(models[i], budget)
                 /\ licensematch(filter, models[i])
              THEN Ok(models[i].name)
              ELSE ScanModels(i + 1, model_type, budget, filter)

\* get_model_name with the pinned name returned for every model_type.
GetModelName_any_type(pinned, model_type, budget, filter) ==
    IF Truthy(pinned)
    THEN Ok(pinned.s)
    ELSE ScanModels(1, model_type, budget, filter)

\* get_model_name with the value of LANGUAGEMODELS_INSTRUCT_MODEL given.
GetModelName(pinned, model_type, budget, filter) ==
    IF Truthy(pinned) /\ model_type = "instruct"
    THEN Ok(pinned.s)
    ELSE ScanModels(1, model_type, budget, filter)

get_model_name(model_type, budget, filter) ==
    GetModelName(env_INSTRUCT_MODEL, model_type, budget, filter)

----------------------------------------------------------------------------
(* Model handles and the cache.                                            *)

\* model = None
NoHandle == [present |-> FALSE, kind |-> "None", id |-> 0, loaded |-> FALSE]

\* A freshly constructed ctranslate2 object: constructed means loaded.
NewHandle(kind, id) == [present |-> TRUE, kind |-> kind, id |-> id, loaded |-> TRUE]

\* The constructor the name dispatches to.
ModelKind(model_name) ==
    IF Contains(Chars("minilm"), Lower(Chars(model_name))) THEN "Encoder"
    ELSE IF Contains(Chars("gpt"), Lower(Chars(model_name))) THEN "Generator"
    ELSE "Translator"

\* Whether handle.unload_model / handle.load_model exist: not on None, not on an
\* Encoder (the AttributeError the code catches).
HasLoadUnload(h) == h.present /\ h.kind \in {"Generator", "Translator"}

\* try: handle.unload_model() except AttributeError: pass
unload_model(h) == IF HasLoadUnload(h) THEN [h EXCEPT !.loaded = FALSE] ELSE h

\* try: handle.load_model() except AttributeError: pass
load_model(h) == IF HasLoadUnload(h) THEN [h EXCEPT !.loaded = TRUE] ELSE h

\* 4 gigabytes, the budget under which get_model unloads the other models.
EvictBelow == 4 * 1000 * UnitsPerMilliGB

\* The eviction test without its "and not tokenizer_only".
Evicting_any_call(budget, tokenizer_only) == budget < EvictBelow

\* Whether the eviction loop runs.
Evicting(budget, tokenizer_only) == budget < EvictBelow /\ ~tokenizer_only

\* The eviction loop with nothing catching the AttributeError: the first entry
\* without unload_model() ends the pass, shown in the worst case (nothing unloaded).
EvictOthers_uncaught(cache, model_name) ==
    IF \E m \in DOMAIN cache \ {model_name} : ~HasLoadUnload(cache[m].model)
    THEN cache
    ELSE [m \in DOMAIN cache |->
            IF m # model_name
            THEN [cache[m] EXCEPT !.model = unload_model(@)]
            ELSE cache[m]]

\* The eviction loop with its test inverted (model == model_name).
EvictOthers_same(cache, model_name) ==
    [m \in DOMAIN cache |->
        IF m = model_name
        THEN [cache[m] EXCEPT !.model = unload_model(@)]
        ELSE cache[m]]

\* for model in modelcache: if model != model_name: unload
EvictOthers(cache, model_name) ==
    [m \in DOMAIN cache |->
        IF m # model_name
        THEN [cache[m] EXCEPT !.model = unload_model(@)]
        ELSE cache[m]]

\* The identity of an object constructed for a name: 1 for the first one, and a
\* later one (there is none in the code) would differ from the one it replaces.
FreshId(cache, model_name) ==
    IF model_name \in DOMAIN cache THEN cache[model_name].tok + 1 ELSE 1

\* The branch "model_name not in modelcache" when every download and
\* constructor succeeds.
StoreNew(cache, model_name, tokenizer_only) ==
    LET id == FreshId(cache, model_name)
        entry == [tok |-> id,
                  model |-> IF tokenizer_only THEN NoHandle
                            ELSE NewHandle(ModelKind(model_name), id)]
    IN  [m \in DOMAIN cache \cup {model_name} |->
            IF m = model_name THEN entry ELSE cache[m]]

\* The cached branch as a plain "else": load_model() for tokenizer-only calls too.
Reload_any_call(cache, model_name, tokenizer_only) ==
    [cache EXCEPT ![model_name].model = load_model(@)]

\* The cached branch without its load_model() call.
Reload_skipped(cache, model_name, tokenizer_only) == cache

\* The branch "elif not tokenizer_only" (and the empty branch otherwise).
Reload(cache, model_name, tokenizer_only) ==
    IF tokenizer_only
    THEN cache
    ELSE [cache EXCEPT ![model_name].model = load_model(@)]

\* Lines 334-380 without the test "model_name not in modelcache": every call
\* constructs and stores again.
LoadOrReload_always_new(cache, model_name, tokenizer_only) ==
    StoreNew(cache, model_name, tokenizer_only)

\* The cache after lines 334-380 when nothing raises.
LoadOrReload(cache, model_name, tokenizer_only) ==
    IF model_name \notin DOMAIN cache
    THEN StoreNew(cache, model_name, tokenizer_only)
    ELSE Reload(cache, model_name, tokenizer_only)

\* The eviction loop run although get_model_name raised.
AfterSelectionRaised_evicting(cache) ==
    [m \in DOMAIN cache |-> [cache[m] EXCEPT !.model = unload_model(@)]]

\* get_model_name raised at line 323: nothing below it runs.
AfterSelectionRaised(cache) == cache

\* The tokenizer stored before the model is constructed.
AfterLoadRaised_tokenizer_stored(cache, model_name) ==
    StoreNew(cache, model_name, TRUE)

\* A download or constructor of lines 337-369 raised: the assignment to
\* modelcache[model_name] (lines 350, 359, 370) is not reached.
AfterLoadRaised(cache, model_name) == cache

----------------------------------------------------------------------------
(* History variables.                                                      *)

\* No (tokenizer, model) pair: nothing cached, nothing returned.
NoPair == [tok |-> 0, model |-> NoHandle]

\* What the cache holds under a name.
Cached(cache, model_name) ==
    IF model_name \in DOMAIN cache THEN cache[model_name] ELSE NoPair

NoTrack == [valid |-> FALSE, name |-> "", pair |-> NoPair, lchg |-> FALSE]

NoTracks == [p \in {"instruct", "embedding"} |-> NoTrack]

\* A budget change ends every record; a license change is remembered.
TrackBudget(changed) == IF changed THEN NoTracks ELSE track

TrackLicense(changed) ==
    [p \in DOMAIN track |->
        IF track[p].valid /\ changed THEN [track[p] EXCEPT !.lchg = TRUE] ELSE track[p]]

TrackFull(model_type, model_name, pair) ==
    IF model_type \in DOMAIN track
    THEN [track EXCEPT ![model_type] =
            [valid |-> TRUE, name |-> model_name, pair |-> pair, lchg |-> FALSE]]
    ELSE track

----------------------------------------------------------------------------
(* The operations.                                                         *)

\* set_max_ram(value)
set_max_ram(value) ==
    LET parsed == convert_to_gb(value)
    IN  /\ IF parsed.err = "none"
           THEN /\ max_ram' = parsed.val
                /\ budget_set' = [set |-> TRUE, val |-> parsed.val]
                /\ track' = TrackBudget(GetMaxRam(parsed.val, env_SIZE) # get_max_ram)
           ELSE UNCHANGED << max_ram, budget_set, track >>
        /\ last' = [op |-> "set_max_ram", value |-> value, ret |-> parsed]
        /\ UNCHANGED << license_match, env_SIZE, env_INSTRUCT_MODEL, modelcache >>

\* A call of get_max_ram()
GetMaxRamCall ==
    /\ last' = [op |-> "get_max_ram", ret |-> get_max_ram]
    /\ UNCHANGED << max_ram, license_match, env_SIZE, env_INSTRUCT_MODEL, modelcache,
                    budget_set, track >>

\* require_model_license(match_re)
require_model_license(match_re) ==
    /\ license_match' = match_re
    /\ track' = TrackLicense(match_re # license_match)
    /\ last' = [op |-> "require_model_license", match_re |-> match_re]
    /\ UNCHANGED << max_ram, env_SIZE, env_INSTRUCT_MODEL, modelcache,
                    budget_set >>

\* A call of get_model_name(model_type, max_ram, license_match)
GetModelNameCall(model_type, budget, filter) ==
    /\ last' = [op |-> "get_model_name", model_type |-> model_type, budget |-> budget,
                filter |-> filter, ret |-> get_model_name(model_type, budget, filter)]
    /\ UNCHANGED << max_ram, license_match, env_SIZE, env_INSTRUCT_MODEL, modelcache,
                    budget_set, track >>

(***************************************************************************)
(* get_model(model_type, tokenizer_only). io says whether the downloads    *)
(* and constructors of lines 337-369 succeed ("ok") or one of them raises  *)
(* ("error"); they run only for a name that is not in the cache.           *)
(***************************************************************************)
get_model(model_type, tokenizer_only, io) ==
    LET budget == get_max_ram
        sel == IF budget.err = "none"
               THEN get_model_name(model_type, budget.val, license_match)
               ELSE RaiseStr(budget.err)
        model_name == sel.val
        evicted == IF Evicting(budget.val, tokenizer_only)
                   THEN EvictOthers(modelcache, model_name)
                   ELSE modelcache
        call == [op |-> "get_model", model_type |-> model_type,
                 tokenizer_only |-> tokenizer_only]
    IN  /\ UNCHANGED << max_ram, license_match, env_SIZE, env_INSTRUCT_MODEL,
                        budget_set >>
        /\ IF sel.err # "none"
           THEN /\ io = "ok"
                /\ last' = call @@ [err |-> sel.err, name |-> "", cached |-> NoPair,
                                    ret |-> NoPair]
                /\ modelcache' = AfterSelectionRaised(modelcache)
                /\ UNCHANGED track
           ELSE IF io = "error"
                THEN /\ model_name \notin DOMAIN modelcache
                     /\ modelcache' = AfterLoadRaised(evicted, model_name)
                     /\ last' = call @@ [err |-> "IOError", name |-> model_name,
                                         cached |-> NoPair, ret |-> NoPair]
                     /\ UNCHANGED track
                ELSE /\ modelcache' = LoadOrReload(evicted, model_name, tokenizer_only)
                     /\ last' = call @@ [err |-> "none", name |-> model_name,
                                         cached |-> Cached(modelcache, model_name),
                                         ret |-> modelcache'[model_name]]
                     /\ track' = IF tokenizer_only THEN track
                                 ELSE TrackFull(model_type, model_name,
                                                modelcache'[model_name])

(***************************************************************************)
(* get_model statement by statement. While a call runs, last holds its     *)
(* frame: the arguments, model_name, the pair cached under that name when  *)
(* the call began, the keys the loop of line 326 has still to visit, and   *)
(* pc: "loop" until lines 334-380 have run, "return" before line 382.      *)
(* The code starts no thread, so no other operation runs inside a call.    *)
(***************************************************************************)
Running == last.op = "get_model_running"

\* Lines 323-326: the name is selected and, when the test of line 325 holds,
\* the loop over the keys of modelcache begins.
GetModelSelect(model_type, tokenizer_only) ==
    LET budget == get_max_ram
        sel == IF budget.err = "none"
               THEN get_model_name(model_type, budget.val, license_match)
               ELSE RaiseStr(budget.err)
        model_name == sel.val
    IN  /\ ~Running
        /\ UNCHANGED << max_ram, license_match, env_SIZE, env_INSTRUCT_MODEL,
                        budget_set, track >>
        /\ modelcache' = IF sel.err # "none"
                         THEN AfterSelectionRaised(modelcache)
                         ELSE modelcache
        /\ last' = IF sel.err # "none"
                   THEN [op |-> "get_model", model_type |-> model_type,
                         tokenizer_only |-> tokenizer_only, err |-> sel.err,
                         name |-> "", cached |-> NoPair, ret |-> NoPair]
                   ELSE [op |-> "get_model_running", model_type |-> model_type,
                         tokenizer_only |-> tokenizer_only, name |-> model_name,
                         cached |-> Cached(modelcache, model_name),
                         todo |-> IF Evicting(budget.val, tokenizer_only)
                                  THEN DOMAIN modelcache
                                  ELSE {},
                         pc |-> "loop"]

\* Lines 326-332: one iteration of the loop, for a key not visited yet (the
\* order of the keys is left open).
GetModelVisit(model) ==
    /\ Running
    /\ last.pc = "loop"
    /\ model \in last.todo
    /\ modelcache' = IF model # last.name
                     THEN [modelcache EXCEPT ![model].model = unload_model(@)]
                     ELSE modelcache
    /\ last' = [last EXCEPT !.todo = @ \ {model}]
    /\ UNCHANGED << max_ram, license_match, env_SIZE, env_INSTRUCT_MODEL,
                    budget_set, track >>

\* Line 334 reached although keys remain to be visited.
LoopExhausted_early(todo) == TRUE

\* The for statement of line 326 ends when every key has been visited.
LoopExhausted(todo) == todo = {}

\* Lines 334-380: construct and store, or reload; io as in get_model.
GetModelLoad(io) ==
    /\ Running
    /\ last.pc = "loop"
    /\ LoopExhausted(last.todo)
    /\ UNCHANGED << max_ram, license_match, env_SIZE, env_INSTRUCT_MODEL,
                    budget_set, track >>
    /\ IF io = "error"
       THEN /\ last.name \notin DOMAIN modelcache
            /\ modelcache' = AfterLoadRaised(modelcache, last.name)
            /\ last' = [op |-> "get_model", model_type |-> last.model_type,
                        tokenizer_only |-> last.tokenizer_only, err |-> "IOError",
                        name |-> last.name, cached |-> NoPair, ret |-> NoPair]
       ELSE /\ modelcache' = LoadOrReload(modelcache, last.name, last.tokenizer_only)
            /\ last' = [last EXCEPT !.pc = "return"]

\* Line 382.
GetModelReturn ==
    /\ Running
    /\ last.pc = "return"
    /\ last' = [op |-> "get_model", model_type |-> last.model_type,
                tokenizer_only |-> last.tokenizer_only, err |-> "none",
                name |-> last.name, cached |-> last.cached,
                ret |-> modelcache[last.name]]
    /\ track' = IF last.tokenizer_only THEN track
                ELSE TrackFull(last.model_type, last.name, modelcache[last.name])
    /\ UNCHANGED << max_ram, license_match, env_SIZE, env_INSTRUCT_MODEL,
                    budget_set, modelcache >>

----------------------------------------------------------------------------
(* Inputs and bounds.                                                      *)

Prefix(seq, n) == {seq[i] : i \in 1..(IF n < Len(seq) THEN n ELSE Len(seq))}

\* Values handed to set_max_ram and found in LANGUAGEMODELS_SIZE.
SizeValues ==
    << Number(2000), Number(500), Number(0), String("4G"), String("256mb"),
       String("big"), String("b"), Number(16000), String("256M"), String(".5"),
       String("512mb"), String("512"), String("4gbb"), String("m"), String("0"),
       String("1.5g"), String("4b"), String("4k"), String("1.2.3"), String("16"),
       String("0.79") >>

NumSizeValues == 17

SizeInputs == Prefix(SizeValues, NumSizeValues)

EnvSizeValues ==
    << None, Some("small"), Some("BASE"), Some("Large"), Some("xl"), Some("XXL"),
       Some("256mb"), Some(""), Some("big"), Some("base"), Some("4G"), Some("xxl") >>

NumEnvSizes == 9

EnvSizes == Prefix(EnvSizeValues, NumEnvSizes)

\* Budgets handed to get_model_name, in thousandths of a gigabyte.
BudgetValues == << 400, 1000, 10, 248, 783, 4000, 77, 3000, 125, 775, 0, 16000, 3001 >>

NumBudgets == 9

Budgets == {b * UnitsPerMilliGB : b \in Prefix(BudgetValues, NumBudgets)}

Purposes == {"instruct", "embedding"}

\* get_model_name is also asked for a purpose no catalog entry has.
SelectPurposes == Purposes \cup {"chat"}

Filters == {None, Some(""), Some("apache*"), Some("mit"), Some("cc-by"), Some("gpl")}

PinnedValues == {None, Some(""), Some("my-GPT-ct2-int8"), Some("flan-t5-base-ct2-int8")}

\* The cache specification's inputs.
CacheBudgetValues ==
    << Number(790), Number(50), Number(4000), String("256mb") >>

NumCacheBudgets == 2

CacheBudgets == Prefix(CacheBudgetValues, NumCacheBudgets)

CacheFilters == {None, Some("mit")}

CacheEnvSizes == {None}

CachePinned == {None, Some("LaMini-GPT-124M-ct2-int8")}

----------------------------------------------------------------------------
(* Specifications.                                                         *)

\* The state after import, for the environment values given.
InitWith(sizes, pinned, licenses) ==
    /\ max_ram = InitialMaxRam
    /\ license_match \in licenses
    /\ env_SIZE \in sizes
    /\ env_INSTRUCT_MODEL \in pinned
    /\ modelcache = << >>
    /\ budget_set = [set |-> FALSE, val |-> 0]
    /\ track = NoTracks
    /\ last = [op |-> "import"]

Init == InitWith(CacheEnvSizes, CachePinned, {None})

Next ==
    \/ \E value \in CacheBudgets : set_max_ram(value)
    \/ \E match_re \in CacheFilters : require_model_license(match_re)
    \/ \E model_type \in Purposes, tokenizer_only \in BOOLEAN, io \in {"ok", "error"} :
          get_model(model_type, tokenizer_only, io)

Spec == Init /\ [][Next]_vars

InitBudget == InitWith(EnvSizes, {None}, {None})

NextBudget ==
    \/ \E value \in SizeInputs : set_max_ram(value)
    \/ GetMaxRamCall

SpecBudget == InitBudget /\ [][NextBudget]_vars

InitSelect == InitWith({None}, PinnedValues, {None})

NextSelect ==
    \E model_type \in SelectPurposes, budget \in Budgets, filter \in Filters :
        GetModelNameCall(model_type, budget, filter)

SpecSelect == InitSelect /\ [][NextSelect]_vars

InitSteps == InitWith(CacheEnvSizes, {None}, {None})

NextSteps ==
    \/ \E value \in CacheBudgets : ~Running /\ set_max_ram(value)
    \/ \E match_re \in CacheFilters : ~Running /\ require_model_license(match_re)
    \/ \E model_type \in Purposes, tokenizer_only \in BOOLEAN :
          GetModelSelect(model_type, tokenizer_only)
    \/ \E model \in DOMAIN modelcache : GetModelVisit(model)
    \/ \E io \in {"ok", "error"} : GetModelLoad(io)
    \/ GetModelReturn

SpecSteps == InitSteps /\ [][NextSteps]_vars

----------------------------------------------------------------------------
(* Properties of the selection (SpecSelect).                               *)

\* The catalog positions that satisfy the three conditions of the selection.
Eligible(model_type, budget, filter) ==
    {i \in 1..Len(models) :
        /\ models[i].tuning = model_type
        /\ models[i].params * UnitsPerMilliGB < budget
        /\ filter.set => ReMatch(Chars(filter.s), Chars(models[i].license))}

Earliest(S) == CHOOSE i \in S : \A j \in S : i <= j

ParamsOf(model_name) ==
    models[CHOOSE i \in 1..Len(models) : models[i].name = model_name].params

NameCalled(model_type, milli, filter) ==
    /\ last.op = "get_model_name"
    /\ last.model_type = model_type
    /\ last.budget = milli * UnitsPerMilliGB
    /\ last.filter = filter

\* C1: with no pinned name in the environment, get_model_name returns the name
\* of the earliest catalog entry with the requested purpose, params/1e9 strictly
\* below the budget and a license matching the filter (if one is given); the
\* four documented selections come out as documented.
C1_EarliestMatch ==
    (last.op = "get_model_name" /\ ~env_INSTRUCT_MODEL.set) =>
        LET E == Eligible(last.model_type, last.budget, last.filter)
        IN  /\ E # {} => last.ret = Ok(models[Earliest(E)].name)
            /\ NameCalled("instruct", 400, None)
                  => last.ret = Ok("LaMini-Flan-T5-248M-ct2-int8")
            /\ NameCalled("instruct", 1000, None)
                  => last.ret = Ok("LaMini-Flan-T5-783M-ct2-int8")
            /\ NameCalled("instruct", 1000, Some("apache*"))
                  => last.ret = Ok("flan-t5-large-ct2-int8")
            /\ NameCalled("embedding", 400, None)
                  => last.ret = Ok("all-MiniLM-L6-v2-ct2-int8")

\* An entry exactly at the budget (248e6 params, budget 0.248) was passed over
\* for a smaller one further down the catalog.
C1_Witness ==
    /\ ~env_INSTRUCT_MODEL.set
    /\ NameCalled("instruct", 248, None)
    /\ last.ret = Ok("LaMini-Flan-T5-77M-ct2-int8")

\* C2: with no pinned name in the environment, get_model_name raises
\* ModelException exactly when no catalog entry satisfies the three conditions,
\* a returned name is the name of an entry that satisfies them, and
\* get_model_name("instruct", 0.01) raises.
C2_NoModelFound ==
    (last.op = "get_model_name" /\ ~env_INSTRUCT_MODEL.set) =>
        LET E == Eligible(last.model_type, last.budget, last.filter)
        IN  /\ last.ret.err \in {"none", "ModelException"}
            /\ last.ret.err = "ModelException" <=> E = {}
            /\ last.ret.err = "none" => \E i \in E : models[i].name = last.ret.val
            /\ NameCalled("instruct", 10, None) => last.ret.err = "ModelException"

C2_Witness ==
    /\ ~env_INSTRUCT_MODEL.set
    /\ NameCalled("instruct", 10, None)
    /\ last.ret = RaiseStr("ModelException")

\* C3: for a fixed purpose and filter, if get_model_name succeeds at a budget b1
\* then at every larger budget it succeeds too and selects the same entry or one
\* with at least as many params.
C3_Monotonic ==
    last.op = "get_model_name" =>
        \A b1 \in Budgets :
            LET r1 == get_model_name(last.model_type, b1, last.filter)
            IN  (b1 < last.budget /\ r1.err = "none") =>
                    /\ last.ret.err = "none"
                    /\ \/ last.ret.val = r1.val
                       \/ ParamsOf(last.ret.val) >= ParamsOf(r1.val)

\* A larger budget selected a larger model than a smaller budget did.
C3_Witness ==
    /\ NameCalled("instruct", 1000, None)
    /\ last.ret = Ok("LaMini-Flan-T5-783M-ct2-int8")
    /\ get_model_name("instruct", 400 * UnitsPerMilliGB, None)
          = Ok("LaMini-Flan-T5-248M-ct2-int8")

\* What the catalog scan alone gives.
ScanResult(model_type, budget, filter) ==
    LET E == Eligible(model_type, budget, filter)
    IN  IF E = {} THEN RaiseStr("ModelException") ELSE Ok(models[Earliest(E)].name)

\* C10 as stated: whenever LANGUAGEMODELS_INSTRUCT_MODEL is present,
\* get_model_name("instruct", ...) returns it for every budget and filter.
C10_PinnedWhenPresent ==
    (last.op = "get_model_name" /\ env_INSTRUCT_MODEL.set
        /\ last.model_type = "instruct") => last.ret = Ok(env_INSTRUCT_MODEL.s)

\* C10, amended: whenever LANGUAGEMODELS_INSTRUCT_MODEL is present and not the
\* empty string, get_model_name("instruct", ...) returns it for every budget and
\* filter and never raises; get_model_name("embedding", ...) follows the catalog
\* scan whatever the pinned value is.
C10_PinnedWhenNonEmpty ==
    last.op = "get_model_name" =>
        /\ (env_INSTRUCT_MODEL.set /\ env_INSTRUCT_MODEL.s # ""
              /\ last.model_type = "instruct")
              => last.ret = Ok(env_INSTRUCT_MODEL.s)
        /\ last.model_type = "embedding"
              => last.ret = ScanResult("embedding", last.budget, last.filter)

\* The pinned name came back where the scan finds nothing.
C10_Witness ==
    /\ env_INSTRUCT_MODEL = Some("my-GPT-ct2-int8")
    /\ NameCalled("instruct", 10, Some("gpl"))
    /\ last.ret = Ok("my-GPT-ct2-int8")

----------------------------------------------------------------------------
(* Properties of the budget configuration (SpecBudget).                    *)

\* C4: once set_max_ram(v) has accepted a value, every later get_max_ram()
\* returns the parsed value of v until the next set_max_ram, whatever
\* LANGUAGEMODELS_SIZE holds.
C4_OverrideWins ==
    (last.op = "get_max_ram" /\ budget_set.set) => last.ret = Ok(budget_set.val)

\* What C5 expects of get_max_ram() for a value of LANGUAGEMODELS_SIZE, for the
\* values it names: the tiers in any case, a raw size, no value at all.
ExpectedFromEnv(env) ==
    CASE env = None -> 400
      [] env \in {Some("small")} -> 200
      [] env \in {Some("base"), Some("BASE")} -> 400
      [] env \in {Some("large"), Some("Large")} -> 1000
      [] env \in {Some("xl")} -> 4000
      [] env \in {Some("xxl"), Some("XXL")} -> 16000
      [] env \in {Some("256mb")} -> 250
      [] env \in {Some("4G")} -> 4000
      [] OTHER -> -1

\* C5: as long as set_max_ram has not been called, get_max_ram() returns the
\* tier value when LANGUAGEMODELS_SIZE names a tier, the parsed size when it is
\* a raw size string, and 0.40 when it is absent.
C5_UnsetAtStart ==
    (last.op = "get_max_ram" /\ ~budget_set.set /\ ExpectedFromEnv(env_SIZE) >= 0)
        => last.ret = Ok(ExpectedFromEnv(env_SIZE) * UnitsPerMilliGB)

----------------------------------------------------------------------------
(* Properties of the cache (Spec).                                         *)

\* Two handles are the same object (its loaded state aside).
SameInstance(h1, h2) == h1.present = h2.present /\ h1.kind = h2.kind /\ h1.id = h2.id

\* Every entry of the cache is kept by the step, with the same tokenizer and
\* the same model object.
EntriesPersist ==
    \A n \in DOMAIN modelcache :
        /\ n \in DOMAIN modelcache'
        /\ modelcache'[n].tok = modelcache[n].tok
        /\ SameInstance(modelcache[n].model, modelcache'[n].model)

\* The step is a get_model(model_type, False) call that returns.
FullCallReturns(model_type) ==
    /\ last'.op = "get_model"
    /\ last'.model_type = model_type
    /\ ~last'.tokenizer_only
    /\ last'.err = "none"

\* The step returns the pair that the record r remembers.
ReturnsTracked(r) ==
    /\ last'.name = r.name
    /\ last'.ret.tok = r.pair.tok
    /\ SameInstance(last'.ret.model, r.pair.model)

\* C6 as stated: entries persist with their tokenizer and model object, and two
\* get_model(purpose, False) calls with no budget change between them return
\* the same model object.
C6_SameInstanceUnlessBudget ==
    [][/\ EntriesPersist
       /\ \A p \in Purposes :
            (track[p].valid /\ FullCallReturns(p)) => ReturnsTracked(track[p])]_vars

\* C6, amended: entries persist with their tokenizer and model object, and two
\* get_model(purpose, False) calls with neither a budget change nor a license
\* filter change between them return the same model object.
C6_SameInstanceUnlessReconfigured ==
    [][/\ EntriesPersist
       /\ \A p \in Purposes :
            (track[p].valid /\ ~track[p].lchg /\ FullCallReturns(p))
                => ReturnsTracked(track[p])]_vars

\* A full call returned the model object the cache already held, with another
\* entry still in the cache.
C6_Witness ==
    /\ last.op = "get_model" /\ last.err = "none" /\ ~last.tokenizer_only
    /\ last.cached.model.present
    /\ SameInstance(last.ret.model, last.cached.model)
    /\ Cardinality(DOMAIN modelcache) >= 2

\* C7: when get_max_ram() < 4, after a get_model(purpose, False) that returns
\* for the name N, every other cache entry whose handle can be unloaded is
\* unloaded, and every entry that was in the cache before is still there.
C7_Eviction ==
    [][(/\ last'.op = "get_model" /\ last'.err = "none" /\ ~last'.tokenizer_only
        /\ get_max_ram.err = "none" /\ get_max_ram.val < EvictBelow)
       => /\ \A m \in DOMAIN modelcache' \ {last'.name} :
                HasLoadUnload(modelcache'[m].model) => ~modelcache'[m].model.loaded
          /\ DOMAIN modelcache \subseteq DOMAIN modelcache']_vars

\* Under a budget below 4 a full call returned and left another constructed
\* model in the cache, unloaded.
C7_Witness ==
    /\ last.op = "get_model" /\ last.err = "none" /\ ~last.tokenizer_only
    /\ get_max_ram.err = "none" /\ get_max_ram.val < EvictBelow
    /\ modelcache[last.name].model.loaded
    /\ \E m \in DOMAIN modelcache \ {last.name} :
          modelcache[m].model.present /\ ~modelcache[m].model.loaded

\* C8: if the entry for N holds a constructed, unloaded handle, the next
\* get_model(purpose, False) that resolves to N returns (nothing is fetched, so
\* nothing can fail), loads that same handle and returns it with the same
\* tokenizer.
C8_ReloadAfterEviction ==
    [][\A n \in DOMAIN modelcache :
          (/\ modelcache[n].model.present /\ ~modelcache[n].model.loaded
           /\ last'.op = "get_model" /\ ~last'.tokenizer_only /\ last'.name = n)
          => /\ last'.err = "none"
             /\ modelcache'[n] = [modelcache[n] EXCEPT !.model.loaded = TRUE]
             /\ last'.ret = modelcache'[n]]_vars

\* A full call found its model unloaded in the cache and returned it loaded.
C8_Witness ==
    /\ last.op = "get_model" /\ last.err = "none" /\ ~last.tokenizer_only
    /\ last.cached.model.present /\ ~last.cached.model.loaded
    /\ last.ret.model.loaded

RECURSIVE SumParams(_)
SumParams(names) ==
    IF names = {} THEN 0
    ELSE LET n == CHOOSE x \in names : TRUE
         IN  ParamsOf(n) * UnitsPerMilliGB + SumParams(names \ {n})

\* params / 1e9 summed over the cache entries whose model is loaded.
Resident ==
    SumParams({n \in DOMAIN modelcache :
                  modelcache[n].model.present /\ modelcache[n].model.loaded})

\* C9: after every get_model call that returns, the params / 1e9 of the loaded
\* models sum to at most get_max_ram().
C9_ResidentWithinBudget ==
    (last.op = "get_model" /\ last.err = "none" /\ get_max_ram.err = "none")
        => Resident <= get_max_ram.val

----------------------------------------------------------------------------
(* Size parsing (SpecBudget).                                              *)

\* The number of trailing characters of cs that form a recognized suffix:
\* "gb" or "mb", "g" or "m", or none.
SuffixLen(cs) ==
    LET n == Len(cs)
    IN  IF n >= 2 /\ cs[n] = "b" /\ cs[n - 1] \in {"g", "m"} THEN 2
        ELSE IF n >= 1 /\ cs[n] \in {"g", "m"} THEN 1
        ELSE 0

\* The size C11 gives a value: a number is that many gigabytes; a string is a
\* number followed by nothing, g, gb (gigabytes) or m, mb (1/1024 gigabyte), in
\* any case; every other string is a parse error.
ClaimedSize(value) ==
    IF value.kind = "num"
    THEN Ok(value.milli * UnitsPerMilliGB)
    ELSE LET cs == Lower(Chars(value.s))
             k == SuffixLen(cs)
             number == ParseFloat(SubSeq(cs, 1, Len(cs) - k))
             mega == k > 0 /\ cs[Len(cs) - k + 1] = "m"
         IN  IF number.err = "none"
             THEN Ok(number.val * (IF mega THEN 1 ELSE UnitsPerMilliGB))
             ELSE RaiseNum("ParseError")

\* The sizes C11 spells out, in thousandths of a gigabyte.
DocumentedSize(value) ==
    CASE value = String("4G") -> 4000
      [] value = String("256mb") -> 250
      [] value = String("256M") -> 250
      [] value = String(".5") -> 500
      [] value = Number(16000) -> 16000
      [] value = String("512mb") -> 500
      [] OTHER -> -1

\* C11: set_max_ram maps a number to that many gigabytes and a numeric string
\* with no suffix, g or gb to that many gigabytes and with m or mb to that many
\* 1/1024 gigabytes, stores and returns it ("4G" 4.0, "256mb" and "256M" 0.25,
\* ".5" 0.5, 16 16.0, "512mb" 0.5); any other string raises and leaves max_ram
\* as it was.
C11_SizeParsing ==
    [][last'.op = "set_max_ram" =>
         LET claimed == ClaimedSize(last'.value)
             documented == DocumentedSize(last'.value)
         IN  /\ IF claimed.err = "none"
                THEN last'.ret = claimed /\ max_ram' = claimed.val
                ELSE last'.ret.err # "none" /\ max_ram' = max_ram
             /\ documented >= 0 => last'.ret = Ok(documented * UnitsPerMilliGB)]_vars

----------------------------------------------------------------------------
(* Tokenizer-only calls and the gating of the eviction (Spec).             *)

\* C12: every get_model(purpose, False) that returns, returns a pair whose model
\* is present and loaded, also when the cache entry of the name was made by a
\* tokenizer-only call and has no model.
C12_FullCallHasModel ==
    (last.op = "get_model" /\ last.err = "none" /\ ~last.tokenizer_only)
        => /\ last.ret.model.present
           /\ last.ret.model.loaded
           /\ modelcache[last.name] = last.ret

\* C13: a get_model call with tokenizer_only = True, or made while
\* get_max_ram() >= 4, unloads nothing: every model that was loaded before the
\* call is loaded after it.
C13_EvictionGated ==
    [][(/\ last'.op = "get_model"
        /\ \/ last'.tokenizer_only
           \/ get_max_ram.err = "none" /\ get_max_ram.val >= EvictBelow)
       => \A n \in DOMAIN modelcache :
             modelcache[n].model.loaded
                => n \in DOMAIN modelcache' /\ modelcache'[n].model.loaded]_vars

\* A tokenizer-only call returned under a budget below 4 and a model of another
\* name that can be unloaded is still loaded.
C13_Witness ==
    /\ last.op = "get_model" /\ last.err = "none" /\ last.tokenizer_only
    /\ get_max_ram.err = "none" /\ get_max_ram.val < EvictBelow
    /\ \E m \in DOMAIN modelcache \ {last.name} :
          HasLoadUnload(modelcache[m].model) /\ modelcache[m].model.loaded

\* C14: a get_model(purpose, True) that returns for a name not in the cache
\* stores a tokenizer with no model under it and changes nothing else; for a
\* name in the cache it leaves the cache as it was, an unloaded model staying
\* unloaded, and returns the pair that was there.
C14_TokenizerOnly ==
    [][(last'.op = "get_model" /\ last'.err = "none" /\ last'.tokenizer_only)
       => IF last'.name \in DOMAIN modelcache
          THEN modelcache' = modelcache /\ last'.ret = modelcache[last'.name]
          ELSE /\ DOMAIN modelcache' = DOMAIN modelcache \cup {last'.name}
               /\ \A m \in DOMAIN modelcache : modelcache'[m] = modelcache[m]
               /\ modelcache'[last'.name].tok > 0
               /\ modelcache'[last'.name].model = NoHandle
               /\ last'.ret = modelcache'[last'.name]]_vars

\* A tokenizer-only call returned a cached pair whose model stayed unloaded.
C14_Witness ==
    /\ last.op = "get_model" /\ last.err = "none" /\ last.tokenizer_only
    /\ last.cached.model.present /\ ~last.cached.model.loaded
    /\ last.ret = last.cached
    /\ modelcache[last.name] = last.cached

----------------------------------------------------------------------------
(* Failures inside get_model (Spec).                                       *)

\* The budget is below 4, so a full call runs the eviction loop.
BudgetBelow4 == get_max_ram.err = "none" /\ get_max_ram.val < EvictBelow

\* C16: on a get_model(purpose, False) call whose name resolves, entries that
\* cannot be unloaded (an Encoder, or no model at all) neither raise nor stop
\* the eviction: under a budget below 4 they are left as they are and every
\* other entry of another name is unloaded all the same; and a reload asked of
\* such an entry is ignored, the call returning the entry as it is.
C16_BestEffort ==
    [][(last'.op = "get_model" /\ ~last'.tokenizer_only /\ last'.name # "")
       => LET name == last'.name
              others == DOMAIN modelcache \ {name}
          IN  /\ last'.err \in {"none", "IOError"}
              /\ name \in DOMAIN modelcache => last'.err = "none"
              /\ (BudgetBelow4 /\ \E m \in others : ~HasLoadUnload(modelcache[m].model))
                    => \A m \in others :
                          /\ m \in DOMAIN modelcache'
                          /\ IF HasLoadUnload(modelcache[m].model)
                             THEN ~modelcache'[m].model.loaded
                             ELSE modelcache'[m] = modelcache[m]
              /\ (name \in DOMAIN modelcache /\ ~HasLoadUnload(modelcache[name].model))
                    => /\ modelcache'[name] = modelcache[name]
                       /\ last'.ret = modelcache[name]]_vars

\* Under a budget below 4 a full call returned; the cache holds an Encoder of
\* another name, still loaded, and a model of a third name, unloaded.
C16_Witness ==
    /\ last.op = "get_model" /\ last.err = "none" /\ ~last.tokenizer_only
    /\ BudgetBelow4
    /\ \E m \in DOMAIN modelcache \ {last.name} :
          modelcache[m].model.kind = "Encoder" /\ modelcache[m].model.loaded
    /\ \E m \in DOMAIN modelcache \ {last.name} :
          HasLoadUnload(modelcache[m].model) /\ ~modelcache[m].model.loaded

\* C17: when get_model_name raises ModelException inside get_model, the cache
\* is as it was: nothing is unloaded and nothing is added.
C17_NoModelNoEviction ==
    [][(last'.op = "get_model" /\ last'.err = "ModelException")
       => modelcache' = modelcache]_vars

\* A full call under a budget below 4 raised ModelException and a model that
\* could have been unloaded is still loaded.
C17_Witness ==
    /\ last.op = "get_model" /\ last.err = "ModelException" /\ ~last.tokenizer_only
    /\ BudgetBelow4
    /\ \E m \in DOMAIN modelcache :
          HasLoadUnload(modelcache[m].model) /\ modelcache[m].model.loaded

\* C18: when a download or a constructor raises in get_model, the name was not
\* in the cache and is not in it afterwards, and no entry is added or removed;
\* so the next get_model that returns for that name finds nothing cached and
\* constructs the pair.
C18_NothingStoredOnFailure ==
    [][/\ (last'.op = "get_model" /\ last'.err = "IOError")
          => /\ last'.name \notin DOMAIN modelcache
             /\ last'.name \notin DOMAIN modelcache'
             /\ DOMAIN modelcache' = DOMAIN modelcache
       /\ (/\ last.op = "get_model" /\ last.err = "IOError"
           /\ last'.op = "get_model" /\ last'.err = "none"
           /\ last'.name = last.name)
          => /\ last'.cached = NoPair
             /\ last'.ret.tok > 0
             /\ ~last'.tokenizer_only => last'.ret.model.present]_vars

\* A download or constructor raised while the cache holds other entries.
C18_Witness ==
    /\ last.op = "get_model" /\ last.err = "IOError"
    /\ last.name \notin DOMAIN modelcache
    /\ DOMAIN modelcache # {}

----------------------------------------------------------------------------
(* The order of the statements inside one call (SpecSteps).                *)

\* C15: inside a get_model call with tokenizer_only = False under a budget
\* below 4, as long as a key of the eviction loop remains to be visited the
\* load of lines 334-380 has not run and the entry under model_name is as it
\* was when the call began; and once the load has run, no model of another
\* name that can be unloaded is loaded.
C15_EvictionBeforeLoad ==
    (Running /\ ~last.tokenizer_only /\ BudgetBelow4)
    => /\ last.todo # {}
          => /\ last.pc = "loop"
             /\ Cached(modelcache, last.name) = last.cached
       /\ last.pc = "return"
          => \A m \in DOMAIN modelcache \ {last.name} :
                HasLoadUnload(modelcache[m].model) => ~modelcache[m].model.loaded

\* A call under a budget below 4 has loaded its model and is about to return;
\* the cache holds a model of another name that the loop unloaded.
C15_Witness ==
    /\ Running /\ ~last.tokenizer_only /\ BudgetBelow4
    /\ last.pc = "return"
    /\ HasLoadUnload(modelcache[last.name].model)
    /\ modelcache[last.name].model.loaded
    /\ \E m \in DOMAIN modelcache \ {last.name} :
          HasLoadUnload(modelcache[m].model) /\ ~modelcache[m].model.loaded

====
